---- MODULE Spec2Model ----
(***************************************************************************)
(* API-key authentication gate of my-cicd-project (src/app/auth.py):       *)
(* key registry, sliding-window rate limiter, HMAC signature check and the *)
(* require_api_key wrapper, with the routes of src/app/main.py behind it.  *)
(*                                                                         *)
(* Strings that the code takes apart or concatenates (X-Timestamp, the     *)
(* body, the signed message) are sequences of one-character strings; API   *)
(* keys and secrets are only compared and are plain strings.               *)
(***************************************************************************)
EXTENDS Integers, Sequences, FiniteSets, TLC

VARIABLES
    API_KEYS,          \* auth.py:21  the key registry (dict key -> record)
    rate_limit_store,  \* auth.py:37  dict key -> list of admission timestamps
    clock,             \* int(time.time())
    hist,              \* ghost: the check_rate_limit calls made so far, in order
    pc,                \* per thread: where it stands inside check_rate_limit
    loc,               \* per thread: the locals of its check_rate_limit call
    req,               \* the request the gate handled last
    resp,              \* the response it got
    audit,             \* the audit records log_api_request wrote for it
    only_unverified,   \* ghost, per key of rate_limit_store: every timestamp in
                       \* its window was put there by a request that the
                       \* signature checks then rejected
    accepted,          \* ghost: signed request -> times the gate admitted it
    call               \* the route function called directly, and its result

concVars == <<pc, loc>>

gateVars == <<req, resp, audit, only_unverified, accepted, call>>

vars == <<API_KEYS, rate_limit_store, clock, hist, concVars, gateVars>>

(***************************************************************************)
(* Bounds of the model.                                                    *)
(***************************************************************************)
\* largest rate_limit a registry entry takes (the source's 100 and 1000 scaled down)
MaxLimit == 2
\* number of check_rate_limit calls recorded in one behaviour of SpecLimiter
MaxCalls == 4
\* number of request threads inside check_rate_limit at once in SpecConc
NThreads == 2

\* the instants at which the clock is observed: both sides of the 60 s window
\* boundary (differences 59, 60 and 61) and the 0, 10, 20, 61 schedule
Instants == {0, 1, 10, 20, 60, 61}
\* the instants observed while threads are in flight in SpecConc
ConcInstants == {0, 1, 60}

(***************************************************************************)
(* Program constants.                                                      *)
(***************************************************************************)
\* auth.py:78  window_start = now - 60 ; auth.py:94, 100  reset = ... + 60
WINDOW == 60

TestKey == "test-api-key-12345"
ProdKey == "prod-api-key-abcde"
UnknownKey == "unknown-key-00000"

RegisteredKeys == {TestKey, ProdKey}

\* auth.py:21-34  the registry, with rate_limit drawn from 1..MaxLimit
KeyRecords(k) ==
    IF k = TestKey
    THEN { [name |-> "Test Client", tier |-> "free", rate_limit |-> l,
            secret |-> "test-secret-key-67890"] : l \in 1..MaxLimit }
    ELSE { [name |-> "Production Client", tier |-> "premium", rate_limit |-> l,
            secret |-> "prod-secret-key-xyz123"] : l \in 1..MaxLimit }

Registries == { r \in [RegisteredKeys -> UNION {KeyRecords(k) : k \in RegisteredKeys}] :
                  \A k \in RegisteredKeys : r[k] \in KeyRecords(k) }

(***************************************************************************)
(* Python helpers.                                                         *)
(***************************************************************************)
max(a, b) == IF a >= b THEN a ELSE b

abs(a) == IF a >= 0 THEN a ELSE 0 - a

\* dict.get(key) is not None
Has(d, k) == k \in DOMAIN d

\* d[k] = v on a dict
DictSet(d, k, v) == [x \in DOMAIN d \cup {k} |-> IF x = k THEN v ELSE d[x]]

EmptyDict == [x \in {} |-> <<>>]

(***************************************************************************)
(* auth.py:39-41  get_api_key_info: API_KEYS.get(api_key)                   *)
(***************************************************************************)
\* variant: a key that is not found is served under a default record
get_api_key_info_default(registry, api_key) ==
    IF api_key \in DOMAIN registry
    THEN [found |-> TRUE, info |-> registry[api_key]]
    ELSE [found |-> TRUE,
          info |-> [name |-> "", tier |-> "free", rate_limit |-> 1, secret |-> ""]]

\* dict.get: the record, or None (found = FALSE); it raises for no str key
get_api_key_info(registry, api_key) ==
    IF api_key \in DOMAIN registry
    THEN [found |-> TRUE, info |-> registry[api_key]]
    ELSE [found |-> FALSE]

\* auth.py:51, 73, 151  `not key_info` is false
known_key(registry, api_key) == get_api_key_info(registry, api_key).found

(***************************************************************************)
(* auth.py:66-100  check_rate_limit, for a key of the registry             *)
(***************************************************************************)
\* auth.py:80-82  initialise the key's list if it does not exist
InitWindow(store, api_key) ==
    IF Has(store, api_key) THEN store ELSE DictSet(store, api_key, <<>>)

\* variant: the comparison of line 87 written ts >= window_start
Prune_inclusive(window, window_start) ==
    SelectSeq(window, LAMBDA ts : ts >= window_start)

\* variant: nothing is ever dropped from the window
Prune_none(window, window_start) == window

\* auth.py:85-88  [ts for ts in window if ts > window_start]
Prune(window, window_start) == SelectSeq(window, LAMBDA ts : ts > window_start)

\* auth.py:91  remaining = max(0, limit - current_count)
Remaining(limit, current_count) == max(0, limit - current_count)

\* variant: the comparison of line 93 written current_count > limit
OverLimit_strict(limit, current_count) == current_count > limit

\* auth.py:93  if current_count >= limit
OverLimit(limit, current_count) == current_count >= limit

\* variant: line 94 reading the newest entry, [-1], instead of [0]
RejectReset_newest(window) == window[Len(window)] + WINDOW

\* auth.py:94  reset_time = rate_limit_store[api_key][0] + 60
RejectReset(window) == window[1] + WINDOW

\* auth.py:100  now + 60
AdmitReset(now) == now + WINDOW

\* the whole function: the returned triple and the store it leaves
check_rate_limit(registry, store, api_key, now) ==
    IF ~known_key(registry, api_key)
    THEN [allowed |-> FALSE, remaining |-> 0, reset_time |-> 0, store |-> store]
    ELSE
      LET limit == get_api_key_info(registry, api_key).info.rate_limit
          window_start == now - WINDOW
          store1 == InitWindow(store, api_key)
          pruned == Prune(store1[api_key], window_start)
          store2 == DictSet(store1, api_key, pruned)
          current_count == Len(pruned)
          remaining == Remaining(limit, current_count)
      IN IF OverLimit(limit, current_count)
         THEN [allowed |-> FALSE, remaining |-> 0,
               reset_time |-> RejectReset(pruned), store |-> store2]
         ELSE [allowed |-> TRUE, remaining |-> remaining,
               reset_time |-> AdmitReset(now),
               store |-> DictSet(store2, api_key, Append(pruned, now))]

(***************************************************************************)
(* Request threads (one per request in flight).                            *)
(***************************************************************************)
Threads == 1..NThreads

IdleLoc == [api_key |-> "", now |-> 0, limit |-> 0, tmp |-> <<>>,
            current_count |-> 0, remaining |-> 0, reset_time |-> 0,
            result |-> "none"]

NoRequest == [path |-> "", has |-> {}, api_key |-> "", signature |-> <<>>,
              timestamp |-> <<>>, body |-> <<>>]

\* no route function has been called
NoCall == [route |-> "", arg |-> <<>>, status |-> 0, error |-> ""]

NoResponse == [status |-> 0, error |-> "", json |-> {}, headers |-> EmptyDict,
               ran |-> FALSE, attached |-> FALSE, t_start |-> 0, t_end |-> 0]

(***************************************************************************)
(* The clock: time.time() is non-decreasing between observations.          *)
(***************************************************************************)
Advance(instants) ==
    /\ \E t \in instants : t > clock /\ clock' = t
    /\ UNCHANGED <<API_KEYS, rate_limit_store, hist, concVars, gateVars>>

Tick == Advance(Instants)

(***************************************************************************)
(* SpecLimiter: sequential callers of check_rate_limit.                    *)
(***************************************************************************)
CallRecord(api_key, now, r) ==
    [api_key |-> api_key, now |-> now, allowed |-> r.allowed,
     remaining |-> r.remaining, reset_time |-> r.reset_time]

CallCheckRateLimit(api_key) ==
    /\ Len(hist) < MaxCalls
    /\ LET r == check_rate_limit(API_KEYS, rate_limit_store, api_key, clock)
       IN /\ rate_limit_store' = r.store
          /\ hist' = Append(hist, CallRecord(api_key, clock, r))
    /\ UNCHANGED <<API_KEYS, clock, concVars, gateVars>>

\* the module state after import: auth.py:21-37
InitModule ==
    /\ API_KEYS \in Registries
    /\ rate_limit_store = EmptyDict
    /\ clock = 0

\* nothing in flight: no call recorded, no thread inside, no request handled
InitIdle ==
    /\ hist = <<>>
    /\ pc = [t \in Threads |-> "idle"]
    /\ loc = [t \in Threads |-> IdleLoc]
    /\ req = NoRequest
    /\ resp = NoResponse
    /\ audit = <<>>
    /\ only_unverified = EmptyDict
    /\ accepted = EmptyDict
    /\ call = NoCall

InitLimiter == InitModule /\ InitIdle

NextLimiter ==
    \/ Tick
    \/ \E k \in RegisteredKeys \cup {UnknownKey} : CallCheckRateLimit(k)

SpecLimiter == InitLimiter /\ [][NextLimiter]_vars

(***************************************************************************)
(* SpecConc: request threads inside check_rate_limit at the same time.     *)
(* The function takes no lock, so a thread switch can fall between any two *)
(* of its statements; each action below is one statement group.            *)
(***************************************************************************)
SetLoc(t, r) == loc' = [loc EXCEPT ![t] = r]
Goto(t, label) == pc' = [pc EXCEPT ![t] = label]

\* the frame is gone on return: what stays is the call (key, now) and its outcome
Return(l, result, remaining, reset_time) ==
    [IdleLoc EXCEPT !.api_key = l.api_key, !.now = l.now, !.result = result,
                    !.remaining = remaining, !.reset_time = reset_time]

\* auth.py:72-78  key_info, limit, now, window_start
T_Begin(t, k) ==
    /\ pc[t] = "idle"
    /\ IF ~known_key(API_KEYS, k)
       THEN /\ SetLoc(t, [IdleLoc EXCEPT !.api_key = k, !.now = clock,
                                          !.result = "rejected"])
            /\ Goto(t, "done")
       ELSE /\ SetLoc(t, [IdleLoc EXCEPT !.api_key = k, !.now = clock,
                                          !.limit =
                                 get_api_key_info(API_KEYS, k).info.rate_limit])
            /\ Goto(t, "init_test")
    /\ UNCHANGED <<API_KEYS, rate_limit_store, clock, hist, gateVars>>

\* auth.py:81  if api_key not in rate_limit_store
T_InitTest(t) ==
    /\ pc[t] = "init_test"
    /\ Goto(t, IF Has(rate_limit_store, loc[t].api_key) THEN "prune_read" ELSE "init_set")
    /\ UNCHANGED <<API_KEYS, rate_limit_store, clock, hist, loc, gateVars>>

\* auth.py:82  rate_limit_store[api_key] = []
T_InitSet(t) ==
    /\ pc[t] = "init_set"
    /\ rate_limit_store' = DictSet(rate_limit_store, loc[t].api_key, <<>>)
    /\ Goto(t, "prune_read")
    /\ UNCHANGED <<API_KEYS, clock, hist, loc, gateVars>>

\* auth.py:86-88  the list comprehension builds the new list
T_PruneRead(t) ==
    /\ pc[t] = "prune_read"
    /\ SetLoc(t, [loc[t] EXCEPT !.tmp =
                    Prune(rate_limit_store[loc[t].api_key], loc[t].now - WINDOW)])
    /\ Goto(t, "prune_write")
    /\ UNCHANGED <<API_KEYS, rate_limit_store, clock, hist, gateVars>>

\* variant: the store is rebuilt around the pruned list of the one key
T_PruneWrite_global(t) ==
    /\ pc[t] = "prune_write"
    /\ rate_limit_store' = (loc[t].api_key :> loc[t].tmp)
    /\ Goto(t, "count")
    /\ UNCHANGED <<API_KEYS, clock, hist, loc, gateVars>>

\* auth.py:85  rate_limit_store[api_key] = <the new list>
T_PruneWrite(t) ==
    /\ pc[t] = "prune_write"
    /\ rate_limit_store' = DictSet(rate_limit_store, loc[t].api_key, loc[t].tmp)
    /\ Goto(t, "count")
    /\ UNCHANGED <<API_KEYS, clock, hist, loc, gateVars>>

\* auth.py:90-91  current_count, remaining
T_Count(t) ==
    /\ pc[t] = "count"
    /\ LET n == Len(rate_limit_store[loc[t].api_key])
       IN SetLoc(t, [loc[t] EXCEPT !.current_count = n,
                                   !.remaining = Remaining(loc[t].limit, n)])
    /\ Goto(t, "compare")
    /\ UNCHANGED <<API_KEYS, rate_limit_store, clock, hist, gateVars>>

\* auth.py:93-95  the comparison and the rejection; [0] of a list that
\* another thread has meanwhile replaced by an empty one raises IndexError
T_Compare(t) ==
    /\ pc[t] = "compare"
    /\ IF OverLimit(loc[t].limit, loc[t].current_count)
       THEN /\ Goto(t, "done")
            /\ IF rate_limit_store[loc[t].api_key] = <<>>
               THEN SetLoc(t, Return(loc[t], "IndexError", 0, 0))
               ELSE SetLoc(t, Return(loc[t], "rejected", 0,
                                     RejectReset(rate_limit_store[loc[t].api_key])))
       ELSE /\ Goto(t, "append")
            /\ UNCHANGED loc
    /\ UNCHANGED <<API_KEYS, rate_limit_store, clock, hist, gateVars>>

\* auth.py:98-100  append to the list the store holds now, and return
T_Append(t) ==
    /\ pc[t] = "append"
    /\ rate_limit_store' =
          DictSet(rate_limit_store, loc[t].api_key,
                  Append(rate_limit_store[loc[t].api_key], loc[t].now))
    /\ SetLoc(t, Return(loc[t], "admitted", loc[t].remaining, AdmitReset(loc[t].now)))
    /\ Goto(t, "done")
    /\ UNCHANGED <<API_KEYS, clock, hist, gateVars>>

TickConc == Advance(ConcInstants)

InitConc == InitLimiter

NextConc ==
    \/ TickConc
    \/ \E t \in Threads : \E k \in RegisteredKeys \cup {UnknownKey} : T_Begin(t, k)
    \/ \E t \in Threads : T_InitTest(t)
    \/ \E t \in Threads : T_InitSet(t)
    \/ \E t \in Threads : T_PruneRead(t)
    \/ \E t \in Threads : T_PruneWrite(t)
    \/ \E t \in Threads : T_Count(t)
    \/ \E t \in Threads : T_Compare(t)
    \/ \E t \in Threads : T_Append(t)

SpecConc == InitConc /\ [][NextConc]_vars

(***************************************************************************)
(* Python's str(int) and int(str) on the decimal strings the gate handles. *)
(***************************************************************************)
Digits == <<"0", "1", "2", "3", "4", "5", "6", "7", "8", "9">>

RECURSIVE NatToStr(_)
NatToStr(n) ==
    IF n < 10 THEN <<Digits[n + 1]>>
    ELSE Append(NatToStr(n \div 10), Digits[(n % 10) + 1])

\* str(n)
py_str(n) == IF n < 0 THEN <<"-">> \o NatToStr(0 - n) ELSE NatToStr(n)

IsDigit(c) == \E i \in 1..10 : Digits[i] = c

DigitVal(c) == (CHOOSE i \in 1..10 : Digits[i] = c) - 1

RECURSIVE DigitsVal(_)
DigitsVal(s) ==
    IF s = <<>> THEN 0
    ELSE 10 * DigitsVal(SubSeq(s, 1, Len(s) - 1)) + DigitVal(s[Len(s)])

\* variant: the leading digits are taken and the rest is dropped
py_int_prefix(s) ==
    LET signed == s # <<>> /\ s[1] \in {"-", "+"}
        ds == IF signed THEN Tail(s) ELSE s
        n == Cardinality({ i \in 1..Len(ds) : \A j \in 1..i : IsDigit(ds[j]) })
        v == DigitsVal(SubSeq(ds, 1, n))
    IN IF n = 0 THEN [ok |-> FALSE, value |-> 0]
       ELSE [ok |-> TRUE, value |-> IF signed /\ s[1] = "-" THEN 0 - v ELSE v]

\* auth.py:189  int(timestamp): an optional sign and decimal digits, else
\* ValueError (ok = FALSE)
py_int(s) ==
    LET signed == s # <<>> /\ s[1] \in {"-", "+"}
        ds == IF signed THEN Tail(s) ELSE s
    IN IF ds = <<>> \/ \E i \in 1..Len(ds) : ~IsDigit(ds[i])
       THEN [ok |-> FALSE, value |-> 0]
       ELSE [ok |-> TRUE,
             value |-> IF signed /\ s[1] = "-" THEN 0 - DigitsVal(ds) ELSE DigitsVal(ds)]

(***************************************************************************)
(* auth.py:43-64  validate_signature.  HMAC-SHA256(secret, message) in hex *)
(* is taken as collision-free: the digest is the pair of its inputs.       *)
(***************************************************************************)
hexdigest(secret, message) == <<secret>> \o message

\* auth.py:64  hmac.compare_digest
compare_digest(a, b) == a = b

\* auth.py:57  f"{timestamp}{body}"
SignedMessage(timestamp, body) == timestamp \o body

\* a character outside ASCII (a header byte above 0x7f)
NonAscii == "0xE9"

\* auth.py:64  hmac.compare_digest on str arguments raises TypeError when
\* either holds a character outside ASCII; hexdigest() is ASCII
compare_digest_raises(a, b) == \E i \in 1..Len(a) : a[i] = NonAscii

\* auth.py:50-64  the call raises instead of returning
validate_signature_raises(registry, api_key, signature, timestamp, body) ==
    /\ known_key(registry, api_key)
    /\ compare_digest_raises(signature,
            hexdigest(get_api_key_info(registry, api_key).info.secret,
                      SignedMessage(timestamp, body)))

validate_signature(registry, api_key, signature, timestamp, body) ==
    IF ~known_key(registry, api_key) THEN FALSE
    ELSE compare_digest(signature,
            hexdigest(get_api_key_info(registry, api_key).info.secret,
                      SignedMessage(timestamp, body)))

(***************************************************************************)
(* The routes behind the gate: main.py:199-290                             *)
(***************************************************************************)
ProtectedPath == "/protected"
SignedPath == "/signed"
AdminPath == "/admin/stats"

\* variant: the decorator's default, check_signature=False, on every route
check_signature_never(path) == FALSE

\* main.py:222  @require_api_key(check_signature=True) on /signed only
check_signature(path) == path = SignedPath

\* the request bodies sent: none, and the JSON text {}
EmptyBody == <<>>
JsonBody == <<"{", "}">>
Bodies == {EmptyBody, JsonBody}

HandlerReturn(status, error) == [raised |-> FALSE, status |-> status, error |-> error]
HandlerRaise(exception) == [raised |-> TRUE, status |-> 500, error |-> exception]

\* main.py:209-219  api_key_info['key_id'], api_key_info['permissions']
protected_endpoint(key_info) ==
    IF {"key_id", "permissions"} \subseteq DOMAIN key_info
    THEN HandlerReturn(200, "")
    ELSE HandlerRaise("KeyError")

\* variant: any permission at all opens the route
admin_stats_any_permission(key_info) ==
    LET permissions == IF "permissions" \in DOMAIN key_info
                       THEN key_info.permissions ELSE {}
    IN IF permissions = {}
       THEN HandlerReturn(403, "Insufficient permissions")
       ELSE HandlerReturn(200, "")

\* main.py:272-290  api_key_info.get('permissions', [])
admin_stats(key_info) ==
    LET permissions == IF "permissions" \in DOMAIN key_info
                       THEN key_info.permissions ELSE {}
    IN IF "admin" \notin permissions
       THEN HandlerReturn(403, "Insufficient permissions")
       ELSE HandlerReturn(200, "")

\* main.py:79-110 around main.py:221-257: get_json fails on a body that is
\* not JSON, UserInput(**{}) lacks name and email, and both end in 400
signed_endpoint(key_info, body) ==
    IF body # JsonBody THEN HandlerReturn(400, "Invalid JSON")
    ELSE HandlerReturn(400, "Validation failed")

Handler(path, key_info, body) ==
    CASE path = ProtectedPath -> protected_endpoint(key_info)
      [] path = AdminPath -> admin_stats(key_info)
      [] path = SignedPath -> signed_endpoint(key_info, body)

(***************************************************************************)
(* auth.py:117-236  require_api_key.wrapper                                *)
(***************************************************************************)
\* auth.py:191  abs(now - req_time) > 300
FRESHNESS == 300

None == "None"

\* auth.py:140-142  api_key = request.headers.get('X-API-Key'); not api_key
not_api_key(r) == "X-API-Key" \notin r.has \/ r.api_key = ""

\* variant: rejected only when both headers are missing
not_signature_both(r) ==
    /\ ("X-Signature" \notin r.has \/ r.signature = <<>>)
    /\ ("X-Timestamp" \notin r.has \/ r.timestamp = <<>>)

\* auth.py:177-180  not signature or not timestamp
not_signature(r) ==
    \/ "X-Signature" \notin r.has \/ r.signature = <<>>
    \/ "X-Timestamp" \notin r.has \/ r.timestamp = <<>>

\* variant: the boundary second itself counts as expired
Expired_exclusive(now, req_time) == abs(now - req_time) >= FRESHNESS

\* auth.py:191
Expired(now, req_time) == abs(now - req_time) > FRESHNESS

\* auth.py:176-211  the signature checks, in the code's order; status 500
\* stands for the exception that leaves the wrapper
SignatureStage(registry, r, now) ==
    IF not_signature(r) THEN [status |-> 401, error |-> "Missing signature"]
    ELSE LET parsed == py_int(r.timestamp)
         IN IF ~parsed.ok THEN [status |-> 400, error |-> "Invalid timestamp"]
            ELSE IF Expired(now, parsed.value)
            THEN [status |-> 401, error |-> "Request expired"]
            ELSE IF validate_signature_raises(registry, r.api_key, r.signature,
                                              r.timestamp, r.body)
            THEN [status |-> 500, error |-> "TypeError"]
            ELSE IF ~validate_signature(registry, r.api_key, r.signature,
                                        r.timestamp, r.body)
            THEN [status |-> 401, error |-> "Invalid signature"]
            ELSE [status |-> 200, error |-> ""]

\* auth.py:102-115  log_api_request
AuditRecord(api_key, endpoint, status, response_time_ms) ==
    [api_key |-> api_key, endpoint |-> endpoint, status |-> status,
     response_time_ms |-> response_time_ms]

\* (time.time() - start_time) * 1000
ElapsedMs(t_start, t_end) == (t_end - t_start) * 1000

\* auth.py:225-227
RateLimitHeaders(limit, remaining, reset_time) ==
    ("X-RateLimit-Limit" :> py_str(limit))
    @@ ("X-RateLimit-Remaining" :> py_str(remaining))
    @@ ("X-RateLimit-Reset" :> py_str(reset_time))

\* auth.py:168-173
RejectedHeaders(limit, reset_time, now) ==
    ("X-RateLimit-Limit" :> py_str(limit))
    @@ ("X-RateLimit-Remaining" :> <<"0">>)
    @@ ("X-RateLimit-Reset" :> py_str(reset_time))
    @@ ("Retry-After" :> py_str(reset_time - now))

ErrorFields == {"error", "message"}

Response(status, error, json, headers, ran, attached, t_start, t_end) ==
    [status |-> status, error |-> error, json |-> json, headers |-> headers,
     ran |-> ran, attached |-> attached, t_start |-> t_start, t_end |-> t_end]

\* variant: a missing header answered as a bad request
MissingKeyReject_400(t_start, t_end) ==
    Response(400, "Missing API key", ErrorFields, EmptyDict, FALSE, FALSE,
             t_start, t_end)

\* auth.py:144-147
MissingKeyReject(t_start, t_end) ==
    Response(401, "Missing API key", ErrorFields, EmptyDict, FALSE, FALSE,
             t_start, t_end)

\* variant: an unrecognised key answered as forbidden
InvalidKeyReject_403(t_start, t_end) ==
    Response(403, "Invalid API key", ErrorFields, EmptyDict, FALSE, FALSE,
             t_start, t_end)

\* auth.py:153-156
InvalidKeyReject(t_start, t_end) ==
    Response(401, "Invalid API key", ErrorFields, EmptyDict, FALSE, FALSE,
             t_start, t_end)

\* variant: the slot is charged only once the signature checks have passed
StoreOnSignatureReject_uncharged(before, charged) == before

\* auth.py:158-176  the rate check runs, and charges the slot, before the
\* signature checks: a signature rejection returns with the store as
\* check_rate_limit left it
StoreOnSignatureReject(before, charged) == charged

\* the wrapper: t_start is the time at entry and at the rate check, t_end the
\* time read by everything after the rate check
Gate(registry, store, r, t_start, t_end) ==
    IF not_api_key(r)
    THEN [resp |-> MissingKeyReject(t_start, t_end),
          audit |-> <<AuditRecord(None, r.path, 401, 0)>>,
          store |-> store, charged |-> FALSE, unverified |-> FALSE]
    ELSE IF ~known_key(registry, r.api_key)
    THEN [resp |-> InvalidKeyReject(t_start, t_end),
          audit |-> <<AuditRecord(r.api_key, r.path, 401, 0)>>,
          store |-> store, charged |-> FALSE, unverified |-> FALSE]
    ELSE
      LET key_info == get_api_key_info(registry, r.api_key).info
          rl == check_rate_limit(registry, store, r.api_key, t_start)
      IN IF ~rl.allowed
         THEN [resp |-> Response(429, "Rate limit exceeded",
                            ErrorFields \cup {"limit", "reset_time"},
                            RejectedHeaders(key_info.rate_limit, rl.reset_time, t_end),
                            FALSE, FALSE, t_start, t_end),
               audit |-> <<AuditRecord(r.api_key, r.path, 429,
                                       ElapsedMs(t_start, t_end))>>,
               store |-> rl.store, charged |-> FALSE, unverified |-> FALSE]
         ELSE
           LET sig == IF check_signature(r.path)
                      THEN SignatureStage(registry, r, t_end)
                      ELSE [status |-> 200, error |-> ""]
           IN IF sig.status = 500
              THEN [resp |-> Response(500, sig.error, {}, EmptyDict,
                                      FALSE, FALSE, t_start, t_end),
                    audit |-> <<>>,
                    store |-> rl.store, charged |-> TRUE, unverified |-> TRUE]
              ELSE IF sig.status # 200
              THEN [resp |-> Response(sig.status, sig.error, ErrorFields, EmptyDict,
                                      FALSE, FALSE, t_start, t_end),
                    audit |-> <<AuditRecord(r.api_key, r.path, sig.status, 0)>>,
                    store |-> StoreOnSignatureReject(store, rl.store),
                    charged |-> TRUE, unverified |-> TRUE]
              ELSE
                LET h == Handler(r.path, key_info, r.body)
                IN IF h.raised
                   THEN [resp |-> Response(500, h.error, {}, EmptyDict,
                                           TRUE, TRUE, t_start, t_end),
                         audit |-> <<>>,
                         store |-> rl.store, charged |-> TRUE, unverified |-> FALSE]
                   ELSE [resp |-> Response(h.status, h.error,
                                      IF h.status = 200 THEN {"status"} ELSE {"error"},
                                      RateLimitHeaders(key_info.rate_limit,
                                                       rl.remaining, rl.reset_time),
                                      TRUE, TRUE, t_start, t_end),
                         audit |-> <<AuditRecord(r.api_key, r.path, h.status,
                                                 ElapsedMs(t_start, t_end))>>,
                         store |-> rl.store, charged |-> TRUE, unverified |-> FALSE]

(***************************************************************************)
(* The requests sent to the gate.                                          *)
(***************************************************************************)
Secrets == {"test-secret-key-67890", "prod-secret-key-xyz123"}

\* X-Timestamp values: not a number, 300 s before instant 0, 300 s after instant 1
TimestampValues == {<<"1", "x">>, py_str(0 - FRESHNESS), py_str(FRESHNESS + 1)}

KeyValues == {"", UnknownKey} \cup RegisteredKeys

Absent == [present |-> FALSE]
Given(v) == [present |-> TRUE, value |-> v]

MakeRequest(path, key, signature, timestamp, body) ==
    [path |-> path,
     has |-> (IF key.present THEN {"X-API-Key"} ELSE {})
             \cup (IF signature.present THEN {"X-Signature"} ELSE {})
             \cup (IF timestamp.present THEN {"X-Timestamp"} ELSE {}),
     api_key |-> IF key.present THEN key.value ELSE "",
     signature |-> IF signature.present THEN signature.value ELSE <<>>,
     timestamp |-> IF timestamp.present THEN timestamp.value ELSE <<>>,
     body |-> body]

KeyOptions == {Absent} \cup {Given(k) : k \in KeyValues}

TimestampOptions == {Absent} \cup {Given(ts) : ts \in TimestampValues}

\* X-Signature values: none, a value that is not ASCII, or a digest made
\* with a registered secret over the timestamp sent and one of the bodies
SignatureOptions(timestamp) ==
    {Absent, Given(<<NonAscii>>)} \cup
    { Given(hexdigest(secret,
                SignedMessage(IF timestamp.present THEN timestamp.value ELSE <<>>, b))) :
        secret \in Secrets, b \in Bodies }

\* POST /signed with every combination of headers and body
SignedRequests ==
    UNION { { MakeRequest(SignedPath, key, sg, ts, body) :
                key \in KeyOptions, body \in Bodies, sg \in SignatureOptions(ts) } :
            ts \in TimestampOptions }

\* GET /protected and GET /admin/stats, with or without the signature headers
GetRequests ==
    { MakeRequest(path, key, sg, ts, EmptyBody) :
        path \in {ProtectedPath, AdminPath}, key \in KeyOptions,
        ts \in {Absent, Given(py_str(FRESHNESS + 1))},
        sg \in {Absent, Given(hexdigest("test-secret-key-67890",
                                        py_str(FRESHNESS + 1)))} }

Requests == SignedRequests \cup GetRequests

(***************************************************************************)
(* Spec: requests handled one at a time by the gate.  req, resp and audit   *)
(* hold the request in hand and are reset when its response has gone out.  *)
(***************************************************************************)
\* the instants observed by the gate: 0 and 1 (a timestamp 300 or 301 s
\* away) and 61 (the windows of admissions at 0 and 1 closed)
GateInstants == {0, 1, 61}

\* the ghost follows rate_limit_store through one gate call
FlagsAfter(flags, r, g) ==
    IF ~Has(g.store, r.api_key) THEN flags
    ELSE LET was == IF Has(flags, r.api_key) THEN flags[r.api_key] ELSE TRUE
             emptied == Len(g.store[r.api_key]) = (IF g.charged THEN 1 ELSE 0)
         IN DictSet(flags, r.api_key,
                    IF g.charged THEN (was \/ emptied) /\ g.unverified
                    ELSE was \/ emptied)

GateRequest(r) ==
    /\ resp = NoResponse
    /\ \E t_end \in GateInstants :
          /\ t_end >= clock
          /\ LET g == Gate(API_KEYS, rate_limit_store, r, clock, t_end)
             IN /\ rate_limit_store' = g.store
                /\ req' = r
                /\ resp' = g.resp
                /\ audit' = g.audit
                /\ only_unverified' = FlagsAfter(only_unverified, r, g)
          /\ clock' = t_end
    /\ UNCHANGED <<API_KEYS, hist, concVars, accepted, call>>

\* auth.py:102-115  log_api_request has no try/except and neither have its
\* callers: an exception raised while the record is written (json.dumps,
\* print on a closed stream) leaves the wrapper in place of the response
LogFails(g, t_start, t_end) ==
    [g EXCEPT !.resp = Response(500, "AuditError", {}, EmptyDict,
                                g.resp.ran, g.resp.attached, t_start, t_end),
              !.audit = <<>>]

\* a request during which the write of its audit record fails
GateRequestLogFails(r) ==
    /\ resp = NoResponse
    /\ \E t_end \in GateInstants :
          /\ t_end >= clock
          /\ Gate(API_KEYS, rate_limit_store, r, clock, t_end).audit # <<>>
          /\ LET g == LogFails(Gate(API_KEYS, rate_limit_store, r, clock, t_end),
                               clock, t_end)
             IN /\ rate_limit_store' = g.store
                /\ req' = r
                /\ resp' = g.resp
                /\ audit' = g.audit
                /\ only_unverified' = FlagsAfter(only_unverified, r, g)
          /\ clock' = t_end
    /\ UNCHANGED <<API_KEYS, hist, concVars, accepted, call>>

\* the response has gone out and the request context is dropped
Finish ==
    /\ resp # NoResponse
    /\ req' = NoRequest
    /\ resp' = NoResponse
    /\ audit' = <<>>
    /\ UNCHANGED <<API_KEYS, rate_limit_store, clock, hist, concVars,
                   only_unverified, accepted, call>>

\* time passing between two requests
TickGate == resp = NoResponse /\ Advance(GateInstants)

Init == InitModule /\ InitIdle

Next ==
    \/ TickGate
    \/ \E r \in Requests : GateRequest(r)
    \/ Finish

Spec == Init /\ [][Next]_vars

(***************************************************************************)
(* SpecAuditFault: the gate with an audit sink that can fail.              *)
(***************************************************************************)
InitAuditFault == Init

NextAuditFault ==
    \/ TickGate
    \/ \E r \in Requests : GateRequest(r)
    \/ \E r \in Requests : GateRequestLogFails(r)
    \/ Finish

SpecAuditFault == InitAuditFault /\ [][NextAuditFault]_vars

(***************************************************************************)
(* SpecReplay: signed requests of registered keys sent to the gate again   *)
(* and again; the ghost `accepted` counts the admissions of each.          *)
(***************************************************************************)
\* the count kept per request stops here
MaxReplays == 2

\* the requests a client of a registered key signs: both headers, the digest
\* of its secret over the timestamp and body sent
ReplayRequests ==
    { MakeRequest(SignedPath, Given(k),
                  Given(hexdigest(get_api_key_info(API_KEYS, k).info.secret,
                                  SignedMessage(ts, body))),
                  Given(ts), body) :
        k \in RegisteredKeys, ts \in { v \in TimestampValues : py_int(v).ok },
        body \in {JsonBody} }

\* the ghost after a gate call for r with outcome g
Recorded(r, g) ==
    IF ~g.resp.ran THEN accepted
    ELSE LET n == IF Has(accepted, r) THEN accepted[r] ELSE 0
         IN DictSet(accepted, r, IF n < MaxReplays THEN n + 1 ELSE MaxReplays)

GateRequestRecorded(r) ==
    /\ resp = NoResponse
    /\ \E t_end \in GateInstants :
          /\ t_end >= clock
          /\ LET g == Gate(API_KEYS, rate_limit_store, r, clock, t_end)
             IN /\ rate_limit_store' = g.store
                /\ req' = r
                /\ resp' = g.resp
                /\ audit' = g.audit
                /\ only_unverified' = FlagsAfter(only_unverified, r, g)
                /\ accepted' = Recorded(r, g)
          /\ clock' = t_end
    /\ UNCHANGED <<API_KEYS, hist, concVars, call>>

InitReplay == Init

NextReplay ==
    \/ TickGate
    \/ \E r \in ReplayRequests : GateRequestRecorded(r)
    \/ Finish

SpecReplay == InitReplay /\ [][NextReplay]_vars

(***************************************************************************)
(* POST /validate: main.py:48-67 UserInput, main.py:79-110 validate_json,  *)
(* main.py:139-162 validate_input                                          *)
(***************************************************************************)
ValidatePath == "/validate"

\* main.py:52  age: Optional[int] = Field(None, ge=0, le=150)
AGE_GE == 0
AGE_LE == 150

age_valid(age) ==
    ~age.present \/ (age.value >= AGE_GE /\ age.value <= AGE_LE)

\* main.py:50, 55-60  min_length=1, max_length=100, no markup characters
name_valid(name) ==
    /\ Len(name) >= 1 /\ Len(name) <= 100
    /\ \A i \in 1..Len(name) : name[i] \notin {"<", ">", "&", "\"", "'"}

\* main.py:51  EmailStr: a local part, an @ and a domain
EmailStr(email) == \E i \in 2..(Len(email) - 1) : email[i] = "@"

\* main.py:89  model(**data): TRUE when the model is built, FALSE when
\* pydantic raises its ValidationError (a ValueError)
UserInput(data) ==
    /\ "name" \in DOMAIN data /\ name_valid(data.name)
    /\ "email" \in DOMAIN data /\ EmailStr(data.email)
    /\ age_valid(IF "age" \in DOMAIN data THEN Given(data.age) ELSE Absent)

\* main.py:84-101 around main.py:153-162
validate_input(data) ==
    IF UserInput(data) THEN HandlerReturn(200, "")
    ELSE HandlerReturn(400, "Validation failed")

(***************************************************************************)
(* SpecRoutes: the route functions applied to the request context and the  *)
(* JSON payload they are given.                                            *)
(***************************************************************************)
\* request.api_key_info: a record of the registry, as it is or carrying the
\* key_id and permissions fields the route functions read
KeyInfosOf(k) ==
    { API_KEYS[k], API_KEYS[k] @@ [key_id |-> k] }
    \cup { API_KEYS[k] @@ [permissions |-> ps] : ps \in SUBSET {"read", "admin"} }
    \cup { API_KEYS[k] @@ [key_id |-> k, permissions |-> ps] :
               ps \in SUBSET {"read", "admin"} }

KeyInfos == UNION { KeyInfosOf(k) : k \in RegisteredKeys }

Ages == {0 - 1, 0, 149, 150, 151}

Payloads ==
    { [name |-> n, email |-> e] : n \in {<<"J">>, <<>>, <<"<">>},
                                   e \in {<<"j", "@", "e">>, <<"j">>} }
    \cup { [name |-> n, email |-> e, age |-> a] :
              n \in {<<"J">>, <<>>, <<"<">>}, e \in {<<"j", "@", "e">>, <<"j">>},
              a \in Ages }

Called(route, arg, h) ==
    /\ call = NoCall
    /\ call' = [route |-> route, arg |-> arg, status |-> h.status, error |-> h.error]
    /\ UNCHANGED <<API_KEYS, rate_limit_store, clock, hist, concVars,
                   req, resp, audit, only_unverified, accepted>>

CallAdminStats(key_info) == Called(AdminPath, key_info, admin_stats(key_info))

CallProtected(key_info) == Called(ProtectedPath, key_info, protected_endpoint(key_info))

CallValidate(data) == Called(ValidatePath, data, validate_input(data))

ReturnCall ==
    /\ call # NoCall
    /\ call' = NoCall
    /\ UNCHANGED <<API_KEYS, rate_limit_store, clock, hist, concVars,
                   req, resp, audit, only_unverified, accepted>>

InitRoutes == Init

NextRoutes ==
    \/ \E key_info \in KeyInfos : CallAdminStats(key_info)
    \/ \E key_info \in KeyInfos : CallProtected(key_info)
    \/ \E data \in Payloads : CallValidate(data)
    \/ ReturnCall

SpecRoutes == InitRoutes /\ [][NextRoutes]_vars

(***************************************************************************)
(* main.py:10-42 and main.py:116  the application object and its           *)
(* after_request hook                                                      *)
(***************************************************************************)
\* main.py:10 and main.py:116: `app = Flask(__name__)` is executed twice
FirstApp == "Flask@main.py:10"
SecondApp == "Flask@main.py:116"

\* the object the name `app` is bound to once the module is imported: the
\* blueprint and the routes are registered on it (main.py:301-304) and it
\* is what the tests and the WSGI entry point import
app == SecondApp

\* main.py:20-40  the headers add_security_headers sets
SecurityHeaderValues ==
    ("X-Frame-Options" :> "DENY")
    @@ ("X-Content-Type-Options" :> "nosniff")
    @@ ("X-XSS-Protection" :> "1; mode=block")
    @@ ("Content-Security-Policy" :>
            "default-src 'self'; script-src 'self'; style-src 'self' 'unsafe-inline'")
    @@ ("Cache-Control" :> "no-store, no-cache, must-revalidate, max-age=0")
    @@ ("Pragma" :> "no-cache")
    @@ ("Expires" :> "0")
    @@ ("Referrer-Policy" :> "strict-origin-when-cross-origin")
    @@ ("Permissions-Policy" :> "geolocation=(), microphone=(), camera=()")

\* main.py:17-42
add_security_headers(headers) == SecurityHeaderValues @@ headers

\* main.py:16  @app.after_request is evaluated while `app` is the first object
after_request_registered(flask_app) == flask_app = FirstApp

\* the headers of a response once the serving application has finalized it
finalize_response(flask_app, headers) ==
    IF after_request_registered(flask_app) THEN add_security_headers(headers)
    ELSE headers

(***************************************************************************)
(* Reading the history of calls.                                           *)
(***************************************************************************)
LimitOf(k) == API_KEYS[k].rate_limit

\* the calls made for key k, in order
KeyHist(k) == SelectSeq(hist, LAMBDA c : c.api_key = k)

\* the admissions among the first n calls of H that are inside the 60 s
\* window of a check at time t
AdmittedInWindow(H, n, t) ==
    { i \in 1..n : H[i].allowed /\ H[i].now > t - 60 }

\* the admissions among the first n calls of H that a check at time t1 still
\* counted and a check at time t2 no longer counts
AgedOut(H, n, t1, t2) ==
    { i \in 1..n : H[i].allowed /\ H[i].now > t1 - 60 /\ H[i].now <= t2 - 60 }

\* the window of H is full right after its call f (an admission)
FullAfter(H, f, limit) ==
    /\ H[f].allowed
    /\ Cardinality(AdmittedInWindow(H, f, H[f].now)) = limit

\* the earliest admission still in the window at call f
EarliestInWindow(H, f) ==
    CHOOSE t \in { H[i].now : i \in AdmittedInWindow(H, f, H[f].now) } :
        \A i \in AdmittedInWindow(H, f, H[f].now) : t <= H[i].now

(***************************************************************************)
(* C2. Sequential calls under a non-decreasing clock: the number of        *)
(* timestamps retained for a key never exceeds its rate_limit, and a call  *)
(* made when `limit` earlier admissions lie within the trailing 60 seconds *)
(* is rejected.                                                            *)
(***************************************************************************)
C2_WindowNeverExceedsLimit ==
    /\ \A k \in DOMAIN rate_limit_store :
          Len(rate_limit_store[k]) <= LimitOf(k)
    /\ \A k \in RegisteredKeys :
          LET H == KeyHist(k)
          IN \A j \in 1..Len(H) :
                Cardinality(AdmittedInWindow(H, j - 1, H[j].now)) >= LimitOf(k)
                    => ~H[j].allowed

C2_Witness ==
    \E k \in RegisteredKeys :
        LET H == KeyHist(k)
        IN \E j \in 1..Len(H) :
              /\ Cardinality(AdmittedInWindow(H, j - 1, H[j].now)) = LimitOf(k)
              /\ ~H[j].allowed
              /\ Len(rate_limit_store[k]) = LimitOf(k)

(***************************************************************************)
(* C3. For a key with limit 2 and an empty window, calls at t = 0, 10, 20, *)
(* 61 return: admitted with remaining 1, admitted with remaining 0,        *)
(* rejected with reset 60, admitted with remaining 1.                      *)
(***************************************************************************)
ScenarioTimes(H) == [i \in 1..Len(H) |-> H[i].now]

C3_Scenario ==
    \A k \in RegisteredKeys :
        LET H == KeyHist(k)
        IN (LimitOf(k) = 2 /\ ScenarioTimes(H) = <<0, 10, 20, 61>>)
            => /\ H[1].allowed /\ H[1].remaining = 1
               /\ H[2].allowed /\ H[2].remaining = 0
               /\ ~H[3].allowed /\ H[3].reset_time = 60
               /\ H[4].allowed /\ H[4].remaining = 1

(***************************************************************************)
(* C4. On every admitted call the reported remaining quota is the limit    *)
(* minus the number of timestamps in the window after the request has been *)
(* appended, and the reported reset time is now + 60.                      *)
(***************************************************************************)
C4_RemainingAfterAppend ==
    (Len(hist) > 0 /\ hist[Len(hist)].allowed)
        => LET c == hist[Len(hist)]
           IN /\ c.remaining = LimitOf(c.api_key) - Len(rate_limit_store[c.api_key])
              /\ c.reset_time = c.now + 60

(***************************************************************************)
(* C5. A rejected call for a known key returns remaining 0 and a reset     *)
(* time of the oldest retained timestamp + 60, and records nothing: the    *)
(* key's window after the call is its window before the call without the   *)
(* expired entries.                                                        *)
(***************************************************************************)
C5_RejectLeavesWindow ==
    [][ (Len(hist') = Len(hist) + 1 /\ ~hist'[Len(hist')].allowed
            /\ hist'[Len(hist')].api_key \in RegisteredKeys)
        => LET c == hist'[Len(hist')]
               k == c.api_key
           IN /\ c.remaining = 0
              /\ k \in DOMAIN rate_limit_store
              /\ rate_limit_store'[k] =
                    SelectSeq(rate_limit_store[k], LAMBDA ts : ts > c.now - 60)
              /\ Len(rate_limit_store'[k]) > 0
              /\ \A i \in 1..Len(rate_limit_store'[k]) :
                    rate_limit_store'[k][i] + 60 >= c.reset_time
              /\ \E i \in 1..Len(rate_limit_store'[k]) :
                    rate_limit_store'[k][i] + 60 = c.reset_time
              /\ \A x \in RegisteredKeys \ {k} :
                    Has(rate_limit_store, x) = Has(rate_limit_store', x)
      ]_vars

\* a rejection that pruned an expired entry and kept a younger one
C5_Witness ==
    \E k \in RegisteredKeys :
        /\ Len(hist) > 1
        /\ hist[Len(hist)].api_key = k
        /\ ~hist[Len(hist)].allowed
        /\ hist[Len(hist)].reset_time = 61
        /\ hist[Len(hist)].now = 60
        /\ rate_limit_store[k] = <<1>>

(***************************************************************************)
(* C6. Sliding-window release: after a call at time t is rejected with     *)
(* reset time R, and with no admission for the key in between, every call  *)
(* at a time in [t, R) is rejected and a call at time R is admitted.       *)
(***************************************************************************)
NoAdmissionBetween(H, i, j) == \A m \in (i + 1)..(j - 1) : ~H[m].allowed

C6_SlidingRelease ==
    \A k \in RegisteredKeys :
        LET H == KeyHist(k)
        IN \A i \in 1..Len(H) : \A j \in (i + 1)..Len(H) :
              (~H[i].allowed /\ NoAdmissionBetween(H, i, j))
                  => /\ (H[j].now < H[i].reset_time => ~H[j].allowed)
                     /\ (H[j].now = H[i].reset_time => H[j].allowed)

\* a rejection, a second rejection before R and the admission at R, for a
\* window whose oldest entry is not at a minute boundary
C6_Witness ==
    \E k \in RegisteredKeys :
        LET H == KeyHist(k)
        IN /\ Len(H) = 4
           /\ ~H[2].allowed /\ H[2].reset_time = 61 /\ H[2].now < 60
           /\ ~H[3].allowed /\ H[3].now = 60
           /\ H[4].allowed /\ H[4].now = 61

(***************************************************************************)
(* C7 as stated. When the window is full, waiting until the earliest       *)
(* admitted timestamp is more than 60 s old frees exactly one slot: the    *)
(* first call is admitted and a second call at the same instant is         *)
(* rejected.                                                               *)
(***************************************************************************)
C7_ExactlyOneSlot ==
    \A k \in RegisteredKeys :
        LET H == KeyHist(k)
        IN \A f \in 1..Len(H) : \A a \in (f + 1)..Len(H) :
              (/\ FullAfter(H, f, LimitOf(k))
               /\ NoAdmissionBetween(H, f, a)
               /\ H[a].now > EarliestInWindow(H, f) + 60
               /\ a + 1 <= Len(H)
               /\ H[a + 1].now = H[a].now)
                  => (H[a].allowed /\ ~H[a + 1].allowed)

(***************************************************************************)
(* C7 amended. When the window is full, waiting until the earliest         *)
(* admitted timestamp is more than 60 s old frees as many slots as there   *)
(* are retained timestamps <= now - 60 (at least one): exactly that many   *)
(* further calls at that instant are admitted before the next rejection.   *)
(***************************************************************************)
C7_SlotsFreedAreAgedOut ==
    \A k \in RegisteredKeys :
        LET H == KeyHist(k)
        IN \A f \in 1..Len(H) : \A a \in (f + 1)..Len(H) :
              (/\ FullAfter(H, f, LimitOf(k))
               /\ NoAdmissionBetween(H, f, a)
               /\ H[a].now > EarliestInWindow(H, f) + 60)
                  => LET freed == Cardinality(AgedOut(H, f, H[f].now, H[a].now))
                     IN /\ freed >= 1
                        /\ \A b \in a..Len(H) :
                              H[b].now = H[a].now
                                  => (H[b].allowed <=> b - a + 1 <= freed)

\* two admissions in the same second are released together: both later
\* calls are admitted
C7_Witness ==
    \E k \in RegisteredKeys :
        LET H == KeyHist(k)
        IN /\ Len(H) = 4 /\ LimitOf(k) = 2
           /\ H[1].allowed /\ H[2].allowed /\ H[1].now = H[2].now
           /\ H[3].now = 61 /\ H[4].now = 61
           /\ H[3].allowed /\ H[4].allowed

\* one slot freed: one admission, then the rejection
C7_WitnessOne ==
    \E k \in RegisteredKeys :
        LET H == KeyHist(k)
        IN /\ Len(H) = 4 /\ LimitOf(k) = 2
           /\ H[1].now = 0 /\ H[2].now = 10 /\ H[2].allowed
           /\ H[3].now = 61 /\ H[4].now = 61
           /\ H[3].allowed /\ ~H[4].allowed

(***************************************************************************)
(* C1. Concurrent callers: N simultaneous calls for one key with limit L   *)
(* and an empty window admit exactly min(N, L) and reject the rest; two    *)
(* concurrent calls are never both admitted when only one slot remains.    *)
(***************************************************************************)
ThreadsWith(result) == { t \in Threads : loc[t].result = result }

C1_AtomicAdmission ==
    \A k \in RegisteredKeys :
        (/\ \A t \in Threads : pc[t] = "done" /\ loc[t].api_key = k
         /\ \A t \in Threads : loc[t].now = 0)
            => /\ Cardinality(ThreadsWith("admitted"))
                    = (IF NThreads <= LimitOf(k) THEN NThreads ELSE LimitOf(k))
               /\ Threads = ThreadsWith("admitted") \cup ThreadsWith("rejected")

(***************************************************************************)
(* C8. On a signature-protected route the rate-limit slot is consumed      *)
(* before any signature check: a request with a known key and free quota   *)
(* that is rejected for a missing signature, a malformed or expired        *)
(* timestamp or a signature mismatch leaves its timestamp in the key's     *)
(* window, and a window filled by `limit` such requests rejects the next   *)
(* request for the key with 429.                                           *)
(***************************************************************************)
SignatureRejections ==
    {"Missing signature", "Invalid timestamp", "Request expired", "Invalid signature"}

Handled == resp = NoResponse /\ resp' # NoResponse

C8_SlotConsumedBeforeSignature ==
    [][ /\ (Handled /\ resp'.error \in SignatureRejections)
            => /\ req'.api_key \in RegisteredKeys
               /\ req'.path = SignedPath
               /\ Has(rate_limit_store', req'.api_key)
               /\ LET before == IF Has(rate_limit_store, req'.api_key)
                                THEN rate_limit_store[req'.api_key] ELSE <<>>
                      after == rate_limit_store'[req'.api_key]
                  IN /\ after # <<>>
                     /\ after[Len(after)] = resp'.t_start
                     /\ Len(after) = 1 + Cardinality({ i \in 1..Len(before) :
                                            before[i] > resp'.t_start - 60 })
        /\ \A k \in RegisteredKeys :
              (/\ Handled /\ req'.api_key = k /\ "X-API-Key" \in req'.has
               /\ Has(rate_limit_store, k) /\ Has(only_unverified, k)
               /\ only_unverified[k]
               /\ Len(rate_limit_store[k]) = LimitOf(k)
               /\ \A i \in 1..Len(rate_limit_store[k]) :
                     rate_limit_store[k][i] > resp'.t_start - 60)
                  => resp'.status = 429
      ]_vars

\* the quota of a key with limit 2 used up by two requests that failed the
\* signature checks: the next request gets 429
C8_Witness ==
    /\ resp.status = 429
    /\ req.api_key \in RegisteredKeys
    /\ LimitOf(req.api_key) = 2
    /\ Len(rate_limit_store[req.api_key]) = 2
    /\ only_unverified[req.api_key]

(***************************************************************************)
(* C9. A request whose X-API-Key is not in the registry is rejected with   *)
(* status 401 (invalid API key), whatever X-Signature, X-Timestamp and     *)
(* body it carries and whatever the route; the handler is not run.         *)
(***************************************************************************)
C9_UnknownKeyRejected ==
    (resp # NoResponse /\ "X-API-Key" \in req.has
        /\ req.api_key \notin DOMAIN API_KEYS)
        => /\ resp.status = 401
           /\ ~resp.ran
           /\ ~resp.attached
           /\ (req.api_key # "" => resp.error = "Invalid API key")

\* an unknown key on the signed route, with a fresh timestamp and a digest
\* made with a registered secret over the timestamp and body sent
C9_Witness ==
    /\ resp.status = 401
    /\ req.api_key = UnknownKey
    /\ req.path = SignedPath
    /\ req.timestamp = py_str(0 - 300) /\ resp.t_end = 0
    /\ req.signature = hexdigest("test-secret-key-67890", req.timestamp \o req.body)
    /\ req.body = JsonBody

(***************************************************************************)
(* C10. A request to a protected route with no, or an empty, X-API-Key     *)
(* header is rejected with status 401 and a JSON body with an error field, *)
(* before any registry lookup or rate-limit check: the handler is not run  *)
(* and rate_limit_store is left as it was.                                 *)
(***************************************************************************)
C10_MissingKeyRejected ==
    [][ (Handled /\ ("X-API-Key" \notin req'.has \/ req'.api_key = ""))
            => /\ resp'.status = 401
               /\ "error" \in resp'.json
               /\ ~resp'.ran
               /\ rate_limit_store' = rate_limit_store
               /\ resp'.headers = EmptyDict
      ]_vars

\* an empty X-API-Key header, on a store that already holds a window
C10_Witness ==
    /\ resp.status = 401
    /\ "X-API-Key" \in req.has /\ req.api_key = ""
    /\ rate_limit_store # EmptyDict

\* no X-API-Key header at all
C10_WitnessAbsent ==
    /\ resp.status = 401
    /\ "X-API-Key" \notin req.has
    /\ {"X-Signature", "X-Timestamp"} \subseteq req.has

(***************************************************************************)
(* C11. When the rate check rejects a request the gate answers 429 with    *)
(* the key's limit and reset_time, and a Retry-After header equal to       *)
(* resetAt - now floored at 0: Retry-After is never negative, also when    *)
(* the clock advances between the rate check and the construction of the   *)
(* response.                                                               *)
(***************************************************************************)
C11_RetryAfterFloored ==
    resp.status = 429
        => /\ {"limit", "reset_time"} \subseteq resp.json
           /\ resp.headers["X-RateLimit-Limit"] = py_str(LimitOf(req.api_key))
           /\ LET resetAt == py_int(resp.headers["X-RateLimit-Reset"]).value
              IN /\ resetAt = rate_limit_store[req.api_key][1] + 60
                 /\ resp.headers["Retry-After"] = py_str(max(0, resetAt - resp.t_end))
                 /\ resp.headers["Retry-After"][1] # "-"

(***************************************************************************)
(* C12. Timestamp freshness is inclusive at 300 seconds in both            *)
(* directions: with a correct signature, a request whose X-Timestamp       *)
(* satisfies |now - timestamp| <= 300 passes the freshness check, and one  *)
(* with |now - timestamp| >= 301 (past or future) is rejected with 401     *)
(* request expired.                                                        *)
(***************************************************************************)
\* the request in hand reached the signature checks with the true signature
\* of its key over the timestamp and body it carries
CorrectlySigned ==
    /\ resp # NoResponse
    /\ req.path = SignedPath
    /\ "X-API-Key" \in req.has
    /\ req.api_key \in RegisteredKeys
    /\ resp.status # 429
    /\ {"X-Signature", "X-Timestamp"} \subseteq req.has
    /\ py_int(req.timestamp).ok
    /\ req.signature = hexdigest(API_KEYS[req.api_key].secret, req.timestamp \o req.body)

\* the distance between the clock read at auth.py:190 and X-Timestamp
TimestampAge ==
    LET d == resp.t_end - py_int(req.timestamp).value
    IN IF d < 0 THEN 0 - d ELSE d

C12_FreshnessInclusive ==
    CorrectlySigned
        => /\ TimestampAge <= 300
                => (resp.ran /\ resp.error \notin SignatureRejections)
           /\ TimestampAge >= 301
                => (resp.status = 401 /\ resp.error = "Request expired" /\ ~resp.ran)

\* a timestamp exactly 300 s in the past passes
C12_Witness ==
    /\ CorrectlySigned
    /\ resp.t_end - py_int(req.timestamp).value = 300
    /\ resp.ran

\* exactly 300 s in the future passes; 301 s either way is rejected
C12_WitnessFuture ==
    CorrectlySigned /\ py_int(req.timestamp).value - resp.t_end = 300 /\ resp.ran

C12_WitnessExpiredPast ==
    /\ CorrectlySigned /\ resp.t_end - py_int(req.timestamp).value = 301
    /\ resp.error = "Request expired"

C12_WitnessExpiredFuture ==
    /\ CorrectlySigned /\ py_int(req.timestamp).value - resp.t_end = 301
    /\ resp.error = "Request expired"

(***************************************************************************)
(* C13. Signature verification accepts exactly the signature               *)
(* HMAC-SHA256(secret of the presented key, timestamp || delivered body):  *)
(* the true signature with a fresh timestamp is accepted, and any other    *)
(* signature value, including one computed over a different body or with   *)
(* another key's secret, is rejected with 401 invalid signature.           *)
(***************************************************************************)
\* the request in hand reached validate_signature: known key, free quota,
\* both headers given, the timestamp an integer within 300 s
ReachedValidate ==
    /\ resp # NoResponse
    /\ req.path = SignedPath
    /\ "X-API-Key" \in req.has
    /\ req.api_key \in RegisteredKeys
    /\ resp.status # 429
    /\ {"X-Signature", "X-Timestamp"} \subseteq req.has
    /\ req.signature # <<>>
    /\ py_int(req.timestamp).ok
    /\ TimestampAge <= 300

TrueSignature == hexdigest(API_KEYS[req.api_key].secret, req.timestamp \o req.body)

C13_SignatureExact ==
    ReachedValidate
        => /\ req.signature = TrueSignature
                => (resp.ran /\ resp.error \notin SignatureRejections)
           /\ req.signature # TrueSignature
                => (resp.status = 401 /\ resp.error = "Invalid signature" /\ ~resp.ran)

\* the same statement over the signature values that are hex digests
C13_AsciiSignatureExact ==
    (ReachedValidate /\ \A i \in 1..Len(req.signature) : req.signature[i] # NonAscii)
        => /\ req.signature = TrueSignature
                => (resp.ran /\ resp.error \notin SignatureRejections)
           /\ req.signature # TrueSignature
                => (resp.status = 401 /\ resp.error = "Invalid signature" /\ ~resp.ran)

(***************************************************************************)
(* C14. On a signature-protected route, a request with a known key and     *)
(* free quota whose X-Timestamp is not a valid integer is rejected with    *)
(* 400 invalid timestamp, whatever the signature value; the handler is     *)
(* not run.                                                                *)
(***************************************************************************)
\* s is not an optional sign followed by decimal digits
NotAnInteger(s) ==
    LET ds == IF s # <<>> /\ s[1] \in {"-", "+"} THEN Tail(s) ELSE s
    IN ds = <<>> \/ \E i \in 1..Len(ds) : ds[i] \notin {Digits[d] : d \in 1..10}

C14_MalformedTimestamp ==
    (/\ resp # NoResponse
     /\ req.path = SignedPath
     /\ "X-API-Key" \in req.has /\ req.api_key \in RegisteredKeys
     /\ resp.status # 429
     /\ "X-Signature" \in req.has /\ req.signature # <<>>
     /\ "X-Timestamp" \in req.has /\ req.timestamp # <<>>
     /\ NotAnInteger(req.timestamp))
        => /\ resp.status = 400
           /\ resp.error = "Invalid timestamp"
           /\ "error" \in resp.json
           /\ ~resp.ran

\* a malformed timestamp under the key's true signature over it
C14_Witness ==
    /\ resp.status = 400
    /\ req.api_key \in RegisteredKeys
    /\ NotAnInteger(req.timestamp)
    /\ req.signature = hexdigest(API_KEYS[req.api_key].secret, req.timestamp \o req.body)

\* a malformed timestamp under a signature that is not ASCII
C14_WitnessNonAscii ==
    /\ resp.status = 400
    /\ NotAnInteger(req.timestamp)
    /\ req.signature = <<NonAscii>>

(***************************************************************************)
(* C15. On a signature-protected route, a request with a known key and     *)
(* free quota that lacks the X-Signature header or the X-Timestamp header  *)
(* is rejected with 401 missing signature; on a route that does not        *)
(* require a signature these headers are ignored and their absence never   *)
(* causes rejection.                                                       *)
(***************************************************************************)
\* the request without its signature headers
WithoutSignatureHeaders(r) ==
    [r EXCEPT !.has = r.has \cap {"X-API-Key"}, !.signature = <<>>, !.timestamp = <<>>]

C15_MissingSignature ==
    [][ (/\ Handled
         /\ "X-API-Key" \in req'.has /\ req'.api_key \in RegisteredKeys
         /\ resp'.status # 429)
            => /\ (req'.path = SignedPath
                     /\ ~({"X-Signature", "X-Timestamp"} \subseteq req'.has))
                    => /\ resp'.status = 401
                       /\ resp'.error = "Missing signature"
                       /\ ~resp'.ran
               /\ req'.path # SignedPath
                    => /\ resp'.ran
                       /\ resp'.error \notin SignatureRejections
                       /\ resp' = Gate(API_KEYS, rate_limit_store,
                                       WithoutSignatureHeaders(req'),
                                       resp'.t_start, resp'.t_end).resp
      ]_vars

\* X-Signature given and X-Timestamp not
C15_Witness ==
    /\ resp.status = 401 /\ resp.error = "Missing signature"
    /\ req.path = SignedPath
    /\ "X-Signature" \in req.has /\ "X-Timestamp" \notin req.has

\* X-Timestamp given and X-Signature not
C15_WitnessNoSignature ==
    /\ resp.status = 401 /\ resp.error = "Missing signature"
    /\ "X-Timestamp" \in req.has /\ "X-Signature" \notin req.has

\* a route without signature checks: handler entered without the headers,
\* and with them
C15_WitnessUnsigned ==
    /\ req.path = AdminPath /\ resp.ran
    /\ req.has = {"X-API-Key"}

C15_WitnessIgnored ==
    /\ req.path = AdminPath /\ resp.ran
    /\ req.has = {"X-API-Key", "X-Signature", "X-Timestamp"}

(***************************************************************************)
(* C16. Every response produced after a successful key lookup carries      *)
(* X-RateLimit-Limit, X-RateLimit-Remaining and X-RateLimit-Reset: the     *)
(* admitted response, the 429 response and every signature-mode rejection  *)
(* (missing signature, invalid timestamp, request expired, invalid         *)
(* signature); Retry-After appears only on 429.                            *)
(***************************************************************************)
RateLimitHeaderNames == {"X-RateLimit-Limit", "X-RateLimit-Remaining", "X-RateLimit-Reset"}

C16_RateLimitHeadersAlways ==
    /\ (/\ resp # NoResponse
        /\ "X-API-Key" \in req.has /\ req.api_key \in DOMAIN API_KEYS
        /\ \/ resp.status = 429
           \/ resp.error \in SignatureRejections
           \/ (resp.ran /\ resp.status # 500))
            => RateLimitHeaderNames \subseteq DOMAIN resp.headers
    /\ resp # NoResponse
            => ("Retry-After" \in DOMAIN resp.headers <=> resp.status = 429)

(***************************************************************************)
(* C17. Every request that enters the gate emits exactly one audit record  *)
(* on every terminal path (missing key, invalid key, rate limited, each    *)
(* signature rejection, admitted with any handler outcome), and the        *)
(* record's status equals the status code returned to the client.          *)
(***************************************************************************)
C17_ExactlyOneAudit ==
    resp # NoResponse
        => /\ Len(audit) = 1
           /\ audit[1].status = resp.status

\* the same statement without the paths on which an exception leaves the wrapper
C17_OneAuditUnlessRaised ==
    (resp # NoResponse /\ resp.status # 500)
        => /\ Len(audit) = 1
           /\ audit[1].status = resp.status

(***************************************************************************)
(* C18. The response_time_ms of every audit record, for rejected as well   *)
(* as admitted requests, equals the time elapsed from entry to the gate    *)
(* until the response is finalized.                                        *)
(***************************************************************************)
C18_ResponseTimeAccurate ==
    (resp # NoResponse /\ audit # <<>>)
        => audit[1].response_time_ms = (resp.t_end - resp.t_start) * 1000

(***************************************************************************)
(* C19. A failure while writing the audit record never changes the         *)
(* outcome of the request: if log_api_request raises, the client still     *)
(* receives the same status and body it would have received had the write  *)
(* succeeded.                                                              *)
(***************************************************************************)
C19_AuditFailureSwallowed ==
    [][ Handled
            => LET written == Gate(API_KEYS, rate_limit_store, req',
                                   resp'.t_start, resp'.t_end).resp
               IN /\ resp'.status = written.status
                  /\ resp'.json = written.json
      ]_vars

(***************************************************************************)
(* C20. Key lookup fails closed and never raises: for an unknown key, and  *)
(* when the backing key store is unavailable or errors, lookup returns     *)
(* absent, and the gate then answers 401 and never admits the request.     *)
(* The key store of the code is the dict API_KEYS held in the module: it   *)
(* has no way to be unavailable, and the lookup is dict.get.               *)
(***************************************************************************)
C20_LookupFailsClosed ==
    [][ Handled
            => /\ resp'.ran => req'.api_key \in DOMAIN API_KEYS
               /\ resp'.attached => req'.api_key \in DOMAIN API_KEYS
               /\ req'.api_key \notin DOMAIN API_KEYS
                    => /\ resp'.status = 401
                       /\ Len(audit') = 1 /\ audit'[1].status = 401
                       /\ rate_limit_store' = rate_limit_store
                       /\ only_unverified' = only_unverified
      ]_vars

\* an unknown key answered 401 while a registered key holds a window
C20_Witness ==
    /\ resp.status = 401 /\ resp.error = "Invalid API key"
    /\ req.api_key = UnknownKey
    /\ req.path = ProtectedPath
    /\ rate_limit_store # EmptyDict
    /\ ~Has(rate_limit_store, UnknownKey)

(***************************************************************************)
(* C21. For a request with a registered key and free quota, a route that   *)
(* requires the 'admin' permission returns 403 Insufficient permissions    *)
(* exactly when the key's permission set lacks 'admin', and 200 with the   *)
(* stats when it contains 'admin'.                                         *)
(***************************************************************************)
\* the permission set of a key record; a record without the field has none
PermissionsOf(key_info) ==
    IF "permissions" \in DOMAIN key_info THEN key_info.permissions ELSE {}

C21_AdminPermission ==
    call.route = AdminPath
        => /\ (call.status = 403 /\ call.error = "Insufficient permissions")
                <=> "admin" \notin PermissionsOf(call.arg)
           /\ (call.status = 200 /\ call.error = "")
                <=> "admin" \in PermissionsOf(call.arg)

\* a key record holding read and admin: 200
C21_Witness ==
    /\ call.route = AdminPath
    /\ PermissionsOf(call.arg) = {"read", "admin"}
    /\ call.status = 200

\* a key record holding read only, and a record of the registry as it is: 403
C21_WitnessReadOnly ==
    /\ call.route = AdminPath
    /\ PermissionsOf(call.arg) = {"read"}
    /\ call.status = 403

C21_WitnessRegistry ==
    /\ call.route = AdminPath
    /\ call.arg \in {API_KEYS[k] : k \in RegisteredKeys}
    /\ call.status = 403

\* through the gate, with the registry of auth.py:21-34 (no record has a
\* permissions field), every admitted request to /admin/stats gets 403
C21_GateAlwaysForbidden ==
    (resp # NoResponse /\ req.path = AdminPath /\ resp.ran)
        => (resp.status = 403 /\ resp.error = "Insufficient permissions")

(***************************************************************************)
(* C22. A GET to the /protected route with a registered key and free       *)
(* quota is admitted and returns 200 with status 'success' and an          *)
(* api_key_id equal to the identifier of the resolved key record.          *)
(***************************************************************************)
C22_ProtectedSucceeds ==
    (/\ resp # NoResponse
     /\ req.path = ProtectedPath
     /\ "X-API-Key" \in req.has /\ req.api_key \in RegisteredKeys
     /\ resp.status # 429)
        => /\ resp.ran
           /\ resp.status = 200
           /\ "status" \in resp.json
           /\ "key_id" \in DOMAIN API_KEYS[req.api_key]

\* the route function on a key record that has the fields it reads
C22_WithKeyIdSucceeds ==
    call.route = ProtectedPath
        => (call.status = 200 <=> {"key_id", "permissions"} \subseteq DOMAIN call.arg)

(***************************************************************************)
(* C23. Every response served by the application carries the security      *)
(* headers X-Frame-Options: DENY, X-Content-Type-Options: nosniff,         *)
(* X-XSS-Protection, Content-Security-Policy, Strict-Transport-Security,   *)
(* Referrer-Policy and Permissions-Policy.                                 *)
(***************************************************************************)
RequiredSecurityHeaders ==
    {"X-Frame-Options", "X-Content-Type-Options", "X-XSS-Protection",
     "Content-Security-Policy", "Strict-Transport-Security", "Referrer-Policy",
     "Permissions-Policy"}

C23_SecurityHeaders ==
    resp # NoResponse
        => LET served == finalize_response(app, resp.headers)
           IN /\ RequiredSecurityHeaders \subseteq DOMAIN served
              /\ served["X-Frame-Options"] = "DENY"
              /\ served["X-Content-Type-Options"] = "nosniff"

\* had the hook been registered on the serving object, Strict-Transport-Security
\* alone would be missing
C23_HookSetsAllButHsts ==
    resp # NoResponse
        => RequiredSecurityHeaders \ DOMAIN finalize_response(FirstApp, resp.headers)
              = {"Strict-Transport-Security"}

(***************************************************************************)
(* C24. The /validate endpoint rejects with status 400 a payload whose age *)
(* is 150; only ages below that bound are accepted.                        *)
(***************************************************************************)
C24_Age150Rejected ==
    (call.route = ValidatePath /\ "age" \in DOMAIN call.arg)
        => /\ call.arg.age = 150 => call.status = 400
           /\ call.status = 200 => call.arg.age < 150

\* what the code does: 150 is the largest age accepted
C24_Age150Accepted ==
    (/\ call.route = ValidatePath /\ "age" \in DOMAIN call.arg
     /\ call.arg.name = <<"J">> /\ call.arg.email = <<"j", "@", "e">>)
        => (call.status = 200 <=> (call.arg.age >= 0 /\ call.arg.age <= 150))

(***************************************************************************)
(* C25. Rate-limit state is partitioned by key: under any interleaving, a  *)
(* check for key A never reads or changes the window of a different key B, *)
(* and whether A is admitted does not depend on B's request history.       *)
(***************************************************************************)
\* the thread whose statement this step executes
Stepping(t) == pc'[t] # pc[t]

\* the threads that have entered check_rate_limit with key k
CallersOf(k) == { t \in Threads : pc[t] # "idle" /\ loc[t].api_key = k }

C25_PartitionedByKey ==
    [][ /\ \A t \in Threads : \A k \in RegisteredKeys :
              (Stepping(t) /\ loc'[t].api_key # k)
                  => /\ Has(rate_limit_store', k) <=> Has(rate_limit_store, k)
                     /\ Has(rate_limit_store, k)
                            => rate_limit_store'[k] = rate_limit_store[k]
        /\ \A t \in Threads : \A k \in RegisteredKeys :
              (pc'[t] = "done" /\ CallersOf(k)' = {t})
                  => /\ loc'[t].result = "admitted"
                     /\ loc'[t].remaining = LimitOf(k)
                     /\ loc'[t].reset_time = loc'[t].now + 60
                     /\ rate_limit_store'[k] = <<loc'[t].now>>
      ]_vars

\* both keys checked at the same time, and both admitted into their own window
C25_Witness ==
    /\ \A t \in Threads : pc[t] = "done" /\ loc[t].result = "admitted"
    /\ \A k \in RegisteredKeys : Cardinality(CallersOf(k)) = 1
    /\ \A k \in RegisteredKeys : LimitOf(k) = 1

(***************************************************************************)
(* C26. The protected handler runs only in the ADMITTED state: it is       *)
(* invoked if and only if the key is present and registered, the rate      *)
(* check admitted the request and, on signature routes, all signature      *)
(* checks passed; when it runs, the resolved key record is attached to the *)
(* request, and after any rejection no further check or handler call       *)
(* happens.                                                                *)
(***************************************************************************)
\* the key of request r is present and registered
KeyAccepted(r) ==
    "X-API-Key" \in r.has /\ r.api_key # "" /\ r.api_key \in DOMAIN API_KEYS

\* fewer than `limit` timestamps of the key's window are inside the 60 s
\* before `now`
QuotaFree(store, k, now) ==
    LET window == IF Has(store, k) THEN store[k] ELSE <<>>
    IN Cardinality({ i \in 1..Len(window) : window[i] > now - 60 }) < LimitOf(k)

\* both headers given, the timestamp an integer within 300 s of `now`, and
\* the signature the digest of the key's secret over timestamp and body
SignaturePasses(r, now) ==
    /\ {"X-Signature", "X-Timestamp"} \subseteq r.has
    /\ r.signature # <<>> /\ r.timestamp # <<>>
    /\ ~NotAnInteger(r.timestamp)
    /\ LET d == now - py_int(r.timestamp).value
       IN d <= 300 /\ 0 - d <= 300
    /\ r.signature = hexdigest(API_KEYS[r.api_key].secret, r.timestamp \o r.body)

C26_HandlerOnlyWhenAdmitted ==
    [][ Handled
            => /\ resp'.ran
                    <=> (/\ KeyAccepted(req')
                         /\ QuotaFree(rate_limit_store, req'.api_key, resp'.t_start)
                         /\ req'.path = SignedPath
                                => SignaturePasses(req', resp'.t_end))
               /\ resp'.ran <=> resp'.attached
               /\ ~KeyAccepted(req') => rate_limit_store' = rate_limit_store
               /\ (KeyAccepted(req')
                     /\ ~QuotaFree(rate_limit_store, req'.api_key, resp'.t_start))
                    => (resp'.status = 429 /\ resp'.error \notin SignatureRejections)
      ]_vars

\* the handler entered on the signed route
C26_Witness ==
    /\ resp.ran /\ resp.attached
    /\ req.path = SignedPath

\* a key with free quota whose signature does not pass: the handler stays out
C26_WitnessRejected ==
    /\ resp # NoResponse /\ ~resp.ran
    /\ req.path = SignedPath
    /\ resp.error = "Invalid signature"

(***************************************************************************)
(* C27. Immediately after every check_rate_limit(key) call at time now,    *)
(* admitted or rejected, every timestamp retained for that key satisfies   *)
(* timestamp > now - 60: entries with timestamp <= now - 60 have been      *)
(* pruned.                                                                 *)
(***************************************************************************)
\* this step is a call of check_rate_limit, recorded last in hist'
CallStep == Len(hist') = Len(hist) + 1

LastCall(H) == H[Len(H)]

C27_RetainedInsideWindow ==
    [][ (CallStep /\ LastCall(hist').api_key \in RegisteredKeys)
            => LET k == LastCall(hist').api_key
                   now == LastCall(hist').now
               IN /\ Has(rate_limit_store', k)
                  /\ \A i \in 1..Len(rate_limit_store'[k]) :
                        rate_limit_store'[k][i] > now - 60
                  /\ Has(rate_limit_store, k)
                        => \A i \in 1..Len(rate_limit_store[k]) :
                              rate_limit_store[k][i] > now - 60
                                 => \E j \in 1..Len(rate_limit_store'[k]) :
                                       rate_limit_store'[k][j] = rate_limit_store[k][i]
      ]_vars

\* a call exactly 60 s after an admission of the same key: that timestamp
\* is gone from the window
C27_Witness ==
    /\ hist # <<>>
    /\ \E i \in 1..(Len(hist) - 1) :
          /\ hist[i].api_key = LastCall(hist).api_key
          /\ hist[i].allowed
          /\ hist[i].now = LastCall(hist).now - 60
          /\ \A j \in 1..Len(rate_limit_store[hist[i].api_key]) :
                rate_limit_store[hist[i].api_key][j] # hist[i].now

\* a rejected call: the window it leaves is inside the 60 s as well
C27_WitnessRejected ==
    /\ hist # <<>>
    /\ ~LastCall(hist).allowed
    /\ LastCall(hist).api_key \in RegisteredKeys
    /\ LastCall(hist).now >= 60

(***************************************************************************)
(* C28. check_rate_limit for a key not in the registry returns rejected    *)
(* with remaining 0 and reset 0 and creates no window entry; together with *)
(* the gate's 401 paths for missing and unknown keys, rate_limit_store     *)
(* only ever holds entries for registered keys and such requests consume   *)
(* no slot of any key.                                                     *)
(***************************************************************************)
C28_UnknownKeyNoEntry ==
    [][ /\ (CallStep /\ LastCall(hist').api_key \notin DOMAIN API_KEYS)
              => /\ ~LastCall(hist').allowed
                 /\ LastCall(hist').remaining = 0
                 /\ LastCall(hist').reset_time = 0
                 /\ rate_limit_store' = rate_limit_store
        /\ (Handled /\ ~KeyAccepted(req'))
              => (resp'.status = 401 /\ rate_limit_store' = rate_limit_store)
        /\ DOMAIN rate_limit_store' \subseteq DOMAIN API_KEYS
      ]_vars

\* a call for an unknown key made while a registered key holds a window
C28_Witness ==
    /\ hist # <<>>
    /\ LastCall(hist).api_key = UnknownKey
    /\ ~LastCall(hist).allowed
    /\ rate_limit_store # EmptyDict
    /\ ~Has(rate_limit_store, UnknownKey)

\* the gate's two 401 paths in front of the rate check
C28_WitnessGate ==
    /\ resp.status = 401 /\ ~KeyAccepted(req)
    /\ rate_limit_store # EmptyDict

(***************************************************************************)
(* C29. Under concurrent check_rate_limit calls for the same key, no       *)
(* admission is lost: every request that was admitted at a timestamp still *)
(* inside the trailing 60-second window is present in the key's window,    *)
(* also when one call's prune-and-reassign of the list interleaves with    *)
(* another call's append.                                                  *)
(***************************************************************************)
\* the calls for key k that returned admitted at a timestamp still inside
\* the 60 s before the clock
AdmittedCalls(k) ==
    { t \in Threads : /\ pc[t] = "done" /\ loc[t].api_key = k
                      /\ loc[t].result = "admitted"
                      /\ loc[t].now > clock - 60 }

C29_NoLostAdmission ==
    \A k \in RegisteredKeys :
        AdmittedCalls(k) # {}
            => /\ Has(rate_limit_store, k)
               /\ Cardinality(AdmittedCalls(k))
                     <= Cardinality({ i \in 1..Len(rate_limit_store[k]) :
                                         rate_limit_store[k][i] > clock - 60 })

(***************************************************************************)
(* C30. The gate keeps no record of signatures already accepted: a signed  *)
(* request (same key, timestamp, body and signature) that was admitted     *)
(* once is admitted again on every re-submission made while                *)
(* |now - timestamp| <= 300 and the key has free quota.                    *)
(***************************************************************************)
C30_ReplayAccepted ==
    [][ (/\ Handled
         /\ Has(accepted, req')
         /\ QuotaFree(rate_limit_store, req'.api_key, resp'.t_start)
         /\ LET d == resp'.t_end - py_int(req'.timestamp).value
            IN d <= 300 /\ 0 - d <= 300)
            => /\ resp'.ran
               /\ resp'.error \notin SignatureRejections
               /\ resp'.status # 401
               /\ Has(accepted', req') /\ accepted'[req'] >= 2
      ]_vars

\* the same signed request admitted a second time
C30_Witness ==
    /\ resp.ran
    /\ req.path = SignedPath
    /\ Has(accepted, req) /\ accepted[req] = 2

\* a second admission 60 s after the first, inside the 300 s of the timestamp
C30_WitnessLater ==
    /\ resp.ran
    /\ Has(accepted, req) /\ accepted[req] = 2
    /\ resp.t_start = 61
    /\ Len(rate_limit_store[req.api_key]) = 1

\* a re-submission once the timestamp is 301 s away is rejected
C30_WitnessStale ==
    /\ resp.error = "Request expired"
    /\ Has(accepted, req)

====
